---- MODULE Spec2Model ----
(***************************************************************************)
(* Model of the accompany onboarding wizard: the session-backed wizard     *)
(* forms, the finish-stream request handler and the provision_site         *)
(* pipeline with the database provisioner and the schema/seed operations   *)
(* it drives.                                                              *)
(*                                                                         *)
(* Text values are sequences of one-character strings so that strip() and  *)
(* the validators are computed, not assumed.  Python dicts are functions   *)
(* with a finite domain of string keys.                                    *)
(***************************************************************************)
EXTENDS Integers, Sequences, FiniteSets, TLC

(* ------------------------------ bounds --------------------------------- *)
\* number of wizard form submissions explored in one session
MaxPosts == 1
\* number of finish-stream requests explored in one session
MaxRequests == 2

(* --------------------------- program constants ------------------------- *)
POSTGRES_SUPERUSER == <<"p", "g">>
POSTGRES_HOST == <<"l", "h">>
POSTGRES_PORT == 5432
LANGUAGES == {<<"e", "n">>, <<"f", "r">>}
MIN_PASSWORD_LEN == 8

(* ------------------------------ text helpers --------------------------- *)
EmptyDict == [k \in {} |-> TRUE]

RECURSIVE LStrip(_)
LStrip(s) == IF Len(s) > 0 /\ s[1] = " " THEN LStrip(Tail(s)) ELSE s

RECURSIVE RStrip(_)
RStrip(s) == IF Len(s) > 0 /\ s[Len(s)] = " " THEN RStrip(SubSeq(s, 1, Len(s) - 1)) ELSE s

\* str.strip()
Strip(s) == RStrip(LStrip(s))

\* c in s
Contains(s, c) == \E i \in 1..Len(s) : s[i] = c

WordChars == {"a", "o", "A", "_"}

\* dict.get(key, default)
DictGet(d, key, default) == IF key \in DOMAIN d THEN d[key] ELSE default

\* dict without key: dict.pop(key, None) for its effect on the dict
DictDel(d, key) == [k \in DOMAIN d \ {key} |-> d[k]]

\* d[key] = value
DictSet(d, key, value) == (key :> value) @@ d

(* ------------------------------ validators ----------------------------- *)
\* not_blank: raises ValueError for a blank value
not_blank_ok(v) == Strip(v) # <<>>

\* valid_email: needs "@" and "." in the stripped value
valid_email_ok(v) == Contains(Strip(v), "@") /\ Contains(Strip(v), ".")

\* matches_pattern(v, r"^[A-Za-z0-9_]+$", ...)
matches_pattern_ok(v) == Strip(v) # <<>> /\ \A i \in 1..Len(Strip(v)) : Strip(v)[i] \in WordChars

(* ------------------------------ inputs --------------------------------- *)
\* a text of n copies of c
Rep(c, n) == [i \in 1..n |-> c]

NewName == <<"a">>
PaddedName == <<" ", "a">>
OldName == <<"o">>
UpperName == <<"A">>
Blank == <<" ">>
GoodEmail == <<"@", ".">>
BadEmail == <<"b">>
TakenEmail == <<"@", ".", "o">>
GoodPw == Rep("x", 8)
BlankPw == Rep(" ", 8)
ShortPw == <<"x">>
RemoteHost == <<"r">>
Ipv6Host == <<":", ":", "1">>

\* db_name values posted to /db-setup/standard
StdDbInputs == {Blank, NewName, PaddedName, OldName, UpperName}

\* (db_name, host, user, ssl, uploaded certificate) posted to /db-setup/custom
CustomDbInputs == {
    [db_name |-> OldName, host |-> RemoteHost, user |-> <<"u">>, ssl |-> FALSE, cert |-> "none"],
    [db_name |-> OldName, host |-> RemoteHost, user |-> POSTGRES_SUPERUSER, ssl |-> FALSE, cert |-> "none"],
    [db_name |-> OldName, host |-> Ipv6Host, user |-> <<"u">>, ssl |-> FALSE, cert |-> "none"],
    [db_name |-> Blank, host |-> RemoteHost, user |-> <<"u">>, ssl |-> FALSE, cert |-> "none"],
    [db_name |-> OldName, host |-> RemoteHost, user |-> <<"u">>, ssl |-> TRUE, cert |-> "none"],
    [db_name |-> OldName, host |-> RemoteHost, user |-> <<"u">>, ssl |-> TRUE, cert |-> "txt"],
    [db_name |-> OldName, host |-> RemoteHost, user |-> <<"u">>, ssl |-> TRUE, cert |-> "good_pem"],
    [db_name |-> OldName, host |-> RemoteHost, user |-> <<"u">>, ssl |-> TRUE, cert |-> "junk_pem"]}

\* (full_name, email, password, confirm_password) posted to /admin-user-setup
AdminInputs == {
    [full_name |-> <<"n">>, email |-> GoodEmail, password |-> GoodPw, confirm |-> GoodPw],
    [full_name |-> <<"n">>, email |-> TakenEmail, password |-> GoodPw, confirm |-> GoodPw],
    [full_name |-> <<"n">>, email |-> GoodEmail, password |-> BlankPw, confirm |-> BlankPw],
    [full_name |-> <<"n">>, email |-> GoodEmail, password |-> GoodPw, confirm |-> ShortPw],
    [full_name |-> <<"n">>, email |-> GoodEmail, password |-> ShortPw, confirm |-> ShortPw],
    [full_name |-> <<"n">>, email |-> BadEmail, password |-> GoodPw, confirm |-> GoodPw],
    [full_name |-> <<>>, email |-> BadEmail, password |-> ShortPw, confirm |-> GoodPw]}

\* (company_name, industry) posted to /company-setup
CompanyInputs == {
    [company_name |-> <<"c">>, industry |-> <<"t">>],
    [company_name |-> Blank, industry |-> <<"t">>]}

\* (language, modules) posted to /system-setup
SystemInputs == {
    [language |-> <<"e", "n">>, modules |-> <<>>],
    [language |-> <<"e", "n">>, modules |-> <<"CRM", "CRM">>],
    [language |-> <<"z">>, modules |-> <<"HR">>]}

VARIABLES
    session,      \* the session cookie the browser holds: each request's request.session is
                  \* loaded from the cookie it carries and saved back when its response starts
    resp,         \* kind of the last wizard response
    nposts,       \* wizard submissions so far
    posted,       \* history: the step and the fields of the last wizard submission
    disk,         \* certificate files written by the custom form: path -> content
    nreq,         \* finish-stream requests sent so far
    inflight,     \* finish-stream requests sent and not yet handled: the session each carries
    sm,           \* request.session of the request that started the run, held by its closures
    carried,      \* history: the session the request that started the run carried
    ran,          \* history: the carried session of every run that executed a pipeline step
    reply,        \* body of the last short-circuited finish-stream response
    pc,           \* position of the provision_site generator of the run
    sd,           \* session_data handed to provision_site
    ok,           \* local: outcome of the last step
    creds,        \* local: credentials returned by the provisioner
    engine,       \* local: scoped engine built from creds
    msgs,         \* messages yielded by provision_site so far
    events,       \* SSE events produced by event_generator so far
    done_flag,    \* done_flag["done"] of the run
    cleanup_pending, \* the background task is scheduled and has not run
    calls,        \* history: provisioner / schema calls invoked and returned
    databases,    \* databases on the server
    roles,        \* roles on the server
    credStore,    \* Credential Store: profile -> stored record
    tables,       \* database name -> its users, company, languages, modules tables
    lastOp,       \* the last direct call of a Credential Store or schema operation and its outcome
    written,      \* history: the profiles write_db_creds was called with and did not raise for
    nops          \* direct calls so far

wizvars == <<session, resp, nposts, posted, disk>>
runvars == <<pc, sd, ok, creds, engine, msgs, events, done_flag, cleanup_pending, calls>>
worldvars == <<databases, roles, credStore, tables>>
reqvars == <<inflight, sm, carried, ran>>
storevars == <<lastOp, written, nops>>
vars == <<session, resp, nposts, posted, disk, nreq, inflight, sm, carried, ran, reply, pc, sd, ok, creds, engine, msgs, events,
          done_flag, cleanup_pending, calls, databases, roles, credStore, tables, lastOp, written, nops>>

(* --------------------------- SessionManager ---------------------------- *)
sm_get(s, key, default) == DictGet(s, key, default)

sm_get_form(s, key) == DictGet(s, key \o "_form", EmptyDict)

sm_save_form(s, key, form, errors) == DictSet(DictSet(s, key \o "_form", form), key \o "_errors", errors)

sm_clear_errors(s, key) == DictDel(s, key \o "_errors")

OnboardingKeys == {"db_type", "__admin_pw", "dbsetup_standard_form", "dbsetup_standard_errors", "dbsetup_custom_form", "dbsetup_custom_errors", "admin_form", "admin_errors", "company_form", "company_errors", "system_form", "system_errors"}

clear_onboarding_state(s) == [k \in DOMAIN s \ OnboardingKeys |-> s[k]]

(* ------------------------------ wizard forms --------------------------- *)
\* Each handler is given as the session, response and certificate files it
\* leaves behind, then as the action that applies it to the live session.

\* POST /db-setup/standard
dbsetup_standard_result(s, db_name) ==
    LET form == [db_name |-> db_name]
        errors == IF matches_pattern_ok(db_name) THEN EmptyDict
                  ELSE [db_name |-> "Only letters, numbers, and underscore allowed."]
        s1 == DictSet(sm_save_form(s, "dbsetup_standard", form, errors), "db_type", "standard")
    IN  IF DOMAIN errors # {}
        THEN [session |-> s1, resp |-> "render db_standard"]
        ELSE [session |-> sm_clear_errors(s1, "dbsetup_standard"), resp |-> "redirect admin-user-setup"]

\* POST /db-setup/custom; pem_path is the fresh uuid-named certificate path
dbsetup_custom_result(s, files, in, pem_path) ==
    LET form0 == [db_name |-> in.db_name, host |-> in.host, port |-> POSTGRES_PORT,
                  user |-> in.user, password |-> <<"w">>, ssl |-> in.ssl]
        e1 == IF not_blank_ok(in.db_name) THEN EmptyDict ELSE [db_name |-> "This field is required."]
        errors == IF in.ssl /\ in.cert = "none" THEN DictSet(e1, "ssl_cert", "When SSL is on, upload a .pem file.")
                  ELSE IF in.ssl /\ in.cert = "txt" THEN DictSet(e1, "ssl_cert", "Only .pem files allowed.")
                  ELSE e1
        persist == in.ssl /\ "ssl_cert" \notin DOMAIN errors /\ in.cert # "none"
        form == IF persist THEN DictSet(form0, "ssl_cert_path", pem_path) ELSE form0
        s0 == IF persist THEN DictSet(s, "ssl_cert_path", pem_path) ELSE s
        s1 == DictSet(sm_save_form(s0, "dbsetup_custom", form, errors), "db_type", "custom")
        files1 == IF persist THEN DictSet(files, pem_path, in.cert) ELSE files
    IN  IF DOMAIN errors # {}
        THEN [session |-> s1, resp |-> "render db_custom", disk |-> files1]
        ELSE [session |-> sm_clear_errors(s1, "dbsetup_custom"), resp |-> "redirect admin-user-setup",
              disk |-> files1]

\* POST /admin-user-setup with the password stored before the errors are looked at
admin_user_setup_result_pw_first(s, in) ==
    LET form == [full_name |-> in.full_name, email |-> in.email]
        e1 == IF ~not_blank_ok(in.full_name) THEN [full_name |-> "This field is required."]
              ELSE IF ~valid_email_ok(in.email) THEN [email |-> "Enter a valid email address."]
              ELSE EmptyDict
        e2 == IF Len(in.password) < MIN_PASSWORD_LEN
              THEN DictSet(e1, "password", "Password must be at least 8 characters.") ELSE e1
        errors == IF in.password # in.confirm
                  THEN DictSet(e2, "confirm_password", "Passwords do not match.") ELSE e2
        s1 == DictSet(sm_save_form(s, "admin", form, errors), "__admin_pw", in.password)
    IN  IF DOMAIN errors # {}
        THEN [session |-> s1, resp |-> "render admin_user_setup"]
        ELSE [session |-> sm_clear_errors(s1, "admin"), resp |-> "redirect company-setup"]

\* POST /admin-user-setup (no profile picture uploaded)
admin_user_setup_result(s, in) ==
    LET form == [full_name |-> in.full_name, email |-> in.email]
        e1 == IF ~not_blank_ok(in.full_name) THEN [full_name |-> "This field is required."]
              ELSE IF ~valid_email_ok(in.email) THEN [email |-> "Enter a valid email address."]
              ELSE EmptyDict
        e2 == IF Len(in.password) < MIN_PASSWORD_LEN
              THEN DictSet(e1, "password", "Password must be at least 8 characters.") ELSE e1
        errors == IF in.password # in.confirm
                  THEN DictSet(e2, "confirm_password", "Passwords do not match.") ELSE e2
        s1 == sm_save_form(s, "admin", form, errors)
    IN  IF DOMAIN errors # {}
        THEN [session |-> s1, resp |-> "render admin_user_setup"]
        ELSE [session |-> sm_clear_errors(DictSet(s1, "__admin_pw", in.password), "admin"),
              resp |-> "redirect company-setup"]

\* POST /company-setup (no logo uploaded)
company_setup_result(s, in) ==
    LET form == [company_name |-> in.company_name, industry |-> in.industry]
        errors == IF ~not_blank_ok(in.company_name) THEN [company_name |-> "This field is required."]
                  ELSE IF ~not_blank_ok(in.industry) THEN [industry |-> "This field is required."]
                  ELSE EmptyDict
        s1 == sm_save_form(s, "company", form, errors)
    IN  IF DOMAIN errors # {}
        THEN [session |-> s1, resp |-> "render company_setup"]
        ELSE [session |-> sm_clear_errors(s1, "company"), resp |-> "redirect system-setup"]

\* POST /system-setup
system_setup_result(s, in) ==
    LET form == [country_code |-> <<"U", "S">>, timezone |-> <<"U", "T", "C">>, currency |-> <<"U", "S", "D">>,
                 language |-> in.language, theme |-> <<"d">>, modules |-> in.modules]
        errors == IF in.language \notin LANGUAGES THEN [language |-> "Select a valid language."] ELSE EmptyDict
        s1 == DictSet(DictSet(s, "system_form", form), "system_errors", errors)
    IN  IF DOMAIN errors # {}
        THEN [session |-> s1, resp |-> "render system_setup"]
        ELSE [session |-> DictDel(s1, "system_errors"), resp |-> "redirect finish"]

dbsetup_standard_post(db_name) ==
    LET r == dbsetup_standard_result(session, db_name)
    IN  /\ nposts < MaxPosts
        /\ nposts' = nposts + 1
        /\ session' = r.session
        /\ resp' = r.resp
        /\ posted' = [step |-> "db_standard", in |-> db_name]
        /\ UNCHANGED <<disk, nreq, reply, reqvars, runvars, worldvars, storevars>>

dbsetup_custom_post(in) ==
    LET r == dbsetup_custom_result(session, disk, in, nposts + 1)
    IN  /\ nposts < MaxPosts
        /\ nposts' = nposts + 1
        /\ session' = r.session
        /\ resp' = r.resp
        /\ posted' = [step |-> "db_custom", in |-> in]
        /\ disk' = r.disk
        /\ UNCHANGED <<nreq, reply, reqvars, runvars, worldvars, storevars>>

admin_user_setup_post(in) ==
    LET r == admin_user_setup_result(session, in)
    IN  /\ nposts < MaxPosts
        /\ nposts' = nposts + 1
        /\ session' = r.session
        /\ resp' = r.resp
        /\ posted' = [step |-> "admin", in |-> in]
        /\ UNCHANGED <<disk, nreq, reply, reqvars, runvars, worldvars, storevars>>

company_setup_post(in) ==
    LET r == company_setup_result(session, in)
    IN  /\ nposts < MaxPosts
        /\ nposts' = nposts + 1
        /\ session' = r.session
        /\ resp' = r.resp
        /\ posted' = [step |-> "company", in |-> in]
        /\ UNCHANGED <<disk, nreq, reply, reqvars, runvars, worldvars, storevars>>

system_setup_post(in) ==
    LET r == system_setup_result(session, in)
    IN  /\ nposts < MaxPosts
        /\ nposts' = nposts + 1
        /\ session' = r.session
        /\ resp' = r.resp
        /\ posted' = [step |-> "system", in |-> in]
        /\ UNCHANGED <<disk, nreq, reply, reqvars, runvars, worldvars, storevars>>

WizardPost ==
    \/ \E n \in StdDbInputs : dbsetup_standard_post(n)
    \/ \E in \in CustomDbInputs : dbsetup_custom_post(in)
    \/ \E in \in AdminInputs : admin_user_setup_post(in)
    \/ \E in \in CompanyInputs : company_setup_post(in)
    \/ \E in \in SystemInputs : system_setup_post(in)

(* ------------------------------ messages ------------------------------- *)
\* a progress message: its leading emoji and the text after it
Msg(pfx, body) == [pfx |-> pfx, body |-> body]

DONE == Msg("", "done")
M_START == Msg("wrench", "Starting site provisioning...")
M_DB_BEGIN == Msg("box", "Setting up database...")
M_ADMIN_BEGIN == Msg("user", "Creating system admin...")
M_COMPANY_BEGIN == Msg("building", "Creating company record...")
M_LANG_BEGIN == Msg("globe", "Seeding languages...")
M_MOD_BEGIN == Msg("box", "Enabling modules...")
M_COMPLETE == Msg("check", "Site provisioning complete")
M_ABORT_DB == Msg("cross", "Aborting: DB provisioning failed")
M_ABORT_ADMIN_MISSING == Msg("cross", "Aborting: Admin credentials missing")
M_ABORT_ADMIN == Msg("cross", "Aborting: Admin setup failed")
M_ABORT_COMPANY_MISSING == Msg("cross", "Aborting: Company name missing")
M_ABORT_COMPANY == Msg("cross", "Aborting: Company setup failed")
M_ABORT_LANG == Msg("cross", "Aborting: Language seeding failed")
M_ABORT_MOD == Msg("cross", "Aborting: Module seeding failed")

\* msg.startswith("\u274c")
StartsWithCross(m) == m.pfx = "cross"

\* the SSE frame event_generator makes of a message
SseEvent(m) == IF m # DONE THEN [event |-> "log", data |-> m] ELSE [event |-> "done", data |-> DONE]

(* ------------------------------ Credential Store ----------------------- *)
\* str(v) of a bool, as write_db_creds stores the ssl flag
StrOfBool(v) == IF v THEN "True" ELSE "False"

\* _CRED_DIR / f"{profile}.ini": pathlib drops a leading "./" of the profile
RECURSIVE ini_path(_)
ini_path(profile) ==
    IF Len(profile) >= 2 /\ profile[1] = "." /\ profile[2] = "/"
    THEN ini_path(SubSeq(profile, 3, Len(profile))) ELSE profile

StoreFaults == {"none", "write", "pem"}

\* write_db_creds without its assertion on the profile
write_db_creds_no_assert(store, files, profile, c, ssl_cert_bytes, uuid, fault) ==
    LET rec0 == [db_name |-> c.db_name, user |-> c.user, password |-> c.password,
                 host |-> c.host, port |-> ToString(c.port), ssl |-> StrOfBool(c.ssl)]
        pem == ssl_cert_bytes # "none" /\ fault # "pem"
        rec == IF pem THEN [k \in DOMAIN rec0 \cup {"ssl_cert"} |-> IF k = "ssl_cert" THEN uuid ELSE rec0[k]]
               ELSE rec0
        files1 == IF pem THEN DictSet(files, uuid, ssl_cert_bytes) ELSE files
    IN  IF fault = "write" THEN [raised |-> TRUE, store |-> store, disk |-> files1]
        ELSE [raised |-> FALSE, store |-> DictSet(store, ini_path(profile), rec), disk |-> files1]

\* write_db_creds(profile, creds, ssl_cert_bytes): store is the directory of .ini
\* files by path, files the certs directory; uuid names the new .pem file.
\* fault "write": the .ini file cannot be written; "pem": the .pem file cannot
write_db_creds(store, files, profile, c, ssl_cert_bytes, uuid, fault) ==
    LET rec0 == [db_name |-> c.db_name, user |-> c.user, password |-> c.password,
                 host |-> c.host, port |-> ToString(c.port), ssl |-> StrOfBool(c.ssl)]
        pem == ssl_cert_bytes # "none" /\ fault # "pem"
        rec == IF pem THEN [k \in DOMAIN rec0 \cup {"ssl_cert"} |-> IF k = "ssl_cert" THEN uuid ELSE rec0[k]]
               ELSE rec0
        files1 == IF pem THEN DictSet(files, uuid, ssl_cert_bytes) ELSE files
    IN  IF Strip(profile) = <<>> THEN [raised |-> TRUE, store |-> store, disk |-> files]
        ELSE IF fault = "write" THEN [raised |-> TRUE, store |-> store, disk |-> files1]
        ELSE [raised |-> FALSE, store |-> DictSet(store, ini_path(profile), rec), disk |-> files1]

Ports == {POSTGRES_PORT, 6543}

\* int(v) of a stored port
IntOfStr(v) == CHOOSE n \in Ports : ToString(n) = v

TRUE_VALUES == {"1", "true", "yes"}

\* str.lower() of what str(bool) gives
LowerOfBoolStr(v) == IF v = "True" THEN "true" ELSE IF v = "False" THEN "false" ELSE v

\* read_db_creds(profile): RawConfigParser.read skips a missing file, so
\* parser["database"] raises KeyError; values come back stripped and cast
read_db_creds(store, profile) ==
    IF ini_path(profile) \notin DOMAIN store THEN [raised |-> TRUE, rec |-> EmptyDict]
    ELSE LET raw == store[ini_path(profile)]
         IN  [raised |-> FALSE,
              rec |-> [k \in DOMAIN raw |-> IF k = "port" THEN IntOfStr(raw[k])
                                            ELSE IF k = "ssl" THEN LowerOfBoolStr(raw[k]) \in TRUE_VALUES
                                            ELSE IF k = "ssl_cert" THEN raw[k]
                                            ELSE Strip(raw[k])]]

(* ------------------------------ Database Provisioner ------------------- *)
ADMIN_SUFFIX == <<"_", "a", "d", "m", "i", "n">>
GENERATED_PASSWORD == <<"g", "e", "n">>

\* PostgreSQL folds an unquoted identifier to lower case
Fold(s) == [i \in 1..Len(s) |-> IF s[i] = "A" THEN "a" ELSE s[i]]

StdFaults == {"none", "connect", "target", "write"}

\* create_standard_db as it would be if CREATE DATABASE accepted an existing name
create_standard_db_if_not_exists(db_name, fault, dbs, rls, store) ==
    LET admin_user == db_name \o ADMIN_SUFFIX
        failed(d, r) == [ok |-> FALSE, creds |-> EmptyDict, msg |-> Msg("cross", "DB setup failed"),
                         raised |-> FALSE, databases |-> d, roles |-> r, credStore |-> store]
        dbs1 == dbs \cup {db_name}
        rls1 == rls \cup {admin_user}
        c == [db_name |-> db_name, user |-> admin_user, password |-> GENERATED_PASSWORD,
              host |-> POSTGRES_HOST, port |-> POSTGRES_PORT, ssl |-> FALSE]
        w == write_db_creds(store, EmptyDict, db_name, c, "none", 0, fault)
    IN  IF fault = "connect" THEN failed(dbs, rls)
        ELSE IF db_name = <<>> THEN failed(dbs, rls)
        ELSE IF admin_user \in rls THEN failed(dbs1, rls)
        ELSE IF Fold(admin_user) \notin rls1 THEN failed(dbs1, rls1)
        ELSE IF fault = "target" THEN failed(dbs1, rls1)
        ELSE IF w.raised THEN failed(dbs1, rls1)
        ELSE [ok |-> TRUE, creds |-> c, msg |-> Msg("check", "Created DB with scoped admin"),
              raised |-> FALSE, databases |-> dbs1, roles |-> rls1, credStore |-> w.store]

\* create_standard_db writing the credentials before the grants on the new database
create_standard_db_write_first(db_name, fault, dbs, rls, store) ==
    LET admin_user == db_name \o ADMIN_SUFFIX
        failed(d, r, st) == [ok |-> FALSE, creds |-> EmptyDict, msg |-> Msg("cross", "DB setup failed"),
                             raised |-> FALSE, databases |-> d, roles |-> r, credStore |-> st]
        dbs1 == dbs \cup {db_name}
        rls1 == rls \cup {admin_user}
        c == [db_name |-> db_name, user |-> admin_user, password |-> GENERATED_PASSWORD,
              host |-> POSTGRES_HOST, port |-> POSTGRES_PORT, ssl |-> FALSE]
        w == write_db_creds(store, EmptyDict, db_name, c, "none", 0, fault)
    IN  IF fault = "connect" THEN failed(dbs, rls, store)
        ELSE IF db_name = <<>> \/ db_name \in dbs THEN failed(dbs, rls, store)
        ELSE IF admin_user \in rls THEN failed(dbs1, rls, store)
        ELSE IF Fold(admin_user) \notin rls1 THEN failed(dbs1, rls1, store)
        ELSE IF w.raised THEN failed(dbs1, rls1, store)
        ELSE IF fault = "target" THEN failed(dbs1, rls1, w.store)
        ELSE [ok |-> TRUE, creds |-> c, msg |-> Msg("check", "Created DB with scoped admin"),
              raised |-> FALSE, databases |-> dbs1, roles |-> rls1, credStore |-> w.store]

\* create_standard_db(db_name); every statement runs in AUTOCOMMIT.
\* fault: where a connection / permission / file error strikes, if anywhere
create_standard_db(db_name, fault, dbs, rls, store) ==
    LET admin_user == db_name \o ADMIN_SUFFIX
        failed(d, r) == [ok |-> FALSE, creds |-> EmptyDict, msg |-> Msg("cross", "DB setup failed"),
                         raised |-> FALSE, databases |-> d, roles |-> r, credStore |-> store]
        dbs1 == dbs \cup {db_name}
        rls1 == rls \cup {admin_user}
        c == [db_name |-> db_name, user |-> admin_user, password |-> GENERATED_PASSWORD,
              host |-> POSTGRES_HOST, port |-> POSTGRES_PORT, ssl |-> FALSE]
        w == write_db_creds(store, EmptyDict, db_name, c, "none", 0, fault)
    IN  IF fault = "connect" THEN failed(dbs, rls)
        ELSE IF db_name = <<>> \/ db_name \in dbs THEN failed(dbs, rls)
        ELSE IF admin_user \in rls THEN failed(dbs1, rls)
        ELSE IF Fold(admin_user) \notin rls1 THEN failed(dbs1, rls1)
        ELSE IF fault = "target" THEN failed(dbs1, rls1)
        ELSE IF w.raised THEN failed(dbs1, rls1)
        ELSE [ok |-> TRUE, creds |-> c, msg |-> Msg("check", "Created DB with scoped admin"),
              raised |-> FALSE, databases |-> dbs1, roles |-> rls1, credStore |-> w.store]

\* create_custom_db up to its await, without the test that the certificate exists
custom_db_prefix_no_check(form, files) ==
    IF DictGet(form, "ssl", FALSE)
    THEN IF "ssl_cert_path" \in DOMAIN form /\ form["ssl_cert_path"] \in DOMAIN files
            /\ files[form["ssl_cert_path"]] # "good_pem" THEN "raise"
         ELSE "connect"
    ELSE "connect"

\* create_custom_db(form) up to its await: the TLS checks before the try block.
\* "raise": ssl.create_default_context rejects the file; "fail": early return;
\* "connect": asyncpg.connect is awaited
custom_db_prefix(form, files) ==
    IF DictGet(form, "ssl", FALSE)
    THEN IF "ssl_cert_path" \notin DOMAIN form \/ form["ssl_cert_path"] \notin DOMAIN files THEN "fail"
         ELSE IF files[form["ssl_cert_path"]] # "good_pem" THEN "raise"
         ELSE "connect"
    ELSE "connect"

\* "connect": asyncpg.connect fails; "write": the .ini file cannot be written
CustomFaults == {"none", "connect", "write"}

\* create_custom_db with a failure reported after the record was written
create_custom_db_keeps_record(form, fault, store, files) ==
    LET failed(conn, f) == [ok |-> FALSE, creds |-> EmptyDict,
                            msg |-> Msg("cross", "Could not connect to remote DB"),
                            connected |-> conn, credStore |-> store, disk |-> f]
        need == {"user", "password", "db_name", "host", "port"}
        c == [db_name |-> form["db_name"], user |-> form["user"], password |-> form["password"],
              host |-> form["host"], port |-> form["port"], ssl |-> DictGet(form, "ssl", FALSE)]
        pem_bytes == IF "ssl_cert" \in DOMAIN form /\ form["ssl_cert"] \in DOMAIN files
                     THEN files[form["ssl_cert"]] ELSE "none"
        w == write_db_creds(store, files, form["db_name"], c, pem_bytes, 0, fault)
    IN  IF ~(need \subseteq DOMAIN form) \/ fault = "connect" THEN failed(FALSE, files)
        ELSE IF w.raised THEN failed(TRUE, w.disk)
        ELSE IF DictGet(form, "ssl", FALSE)
        THEN [ok |-> FALSE, creds |-> EmptyDict, msg |-> Msg("cross", "Could not connect to remote DB"),
              connected |-> TRUE, credStore |-> w.store, disk |-> w.disk]
        ELSE [ok |-> TRUE, creds |-> c, msg |-> Msg("check", "Connected to custom DB and saved credentials."),
              connected |-> TRUE, credStore |-> w.store, disk |-> w.disk]

\* create_custom_db(form) from the try block on; files is the certs directory;
\* connected: asyncpg.connect returned a connection
create_custom_db(form, fault, store, files) ==
    LET failed(conn, f) == [ok |-> FALSE, creds |-> EmptyDict,
                            msg |-> Msg("cross", "Could not connect to remote DB"),
                            connected |-> conn, credStore |-> store, disk |-> f]
        need == {"user", "password", "db_name", "host", "port"}
        c == [db_name |-> form["db_name"], user |-> form["user"], password |-> form["password"],
              host |-> form["host"], port |-> form["port"], ssl |-> DictGet(form, "ssl", FALSE)]
        pem_bytes == IF "ssl_cert" \in DOMAIN form /\ form["ssl_cert"] \in DOMAIN files
                     THEN files[form["ssl_cert"]] ELSE "none"
        w == write_db_creds(store, files, form["db_name"], c, pem_bytes, 0, fault)
    IN  IF ~(need \subseteq DOMAIN form) \/ fault = "connect" THEN failed(FALSE, files)
        ELSE IF w.raised THEN failed(TRUE, w.disk)
        ELSE [ok |-> TRUE, creds |-> c, msg |-> Msg("check", "Connected to custom DB and saved credentials."),
              connected |-> TRUE, credStore |-> w.store, disk |-> w.disk]

\* get_db_admin_engine(creds): make_url cannot parse a host with a colon in it
engine_url_ok(c) == ~Contains(c.host, ":")

get_db_admin_engine(c) == [db |-> c.db_name, user |-> c.user, host |-> c.host, port |-> c.port]

(* ------------------------------ Schema / Seed operations --------------- *)
EmptyTables == [created |-> {}, users |-> {}, company |-> <<>>, languages |-> {}, modules |-> {}]

\* bcrypt.hash: a salted digest, never the cleartext
Hash(pw) == [bcrypt |-> pw]

OpFaults == {"none", "error"}

\* create_system_admin_user on a users table whose username column is not UNIQUE
create_system_admin_user_no_unique(t, email, password, fault) ==
    IF fault = "error" THEN [ok |-> FALSE, msg |-> Msg("cross", "Failed to create admin"), t |-> t]
    ELSE [ok |-> TRUE, msg |-> Msg("check", "System admin user created"),
          t |-> [t EXCEPT !.created = @ \cup {"users"},
                          !.users = @ \cup {[username |-> email, hashed_password |-> Hash(password),
                                              role |-> "system_admin"]}]]

\* create_system_admin_user, one transaction
create_system_admin_user(t, email, password, fault) ==
    IF fault = "error" THEN [ok |-> FALSE, msg |-> Msg("cross", "Failed to create admin"), t |-> t]
    ELSE IF \E r \in t.users : r.username = email
    THEN [ok |-> FALSE, msg |-> Msg("cross", "Email already exists"), t |-> t]
    ELSE [ok |-> TRUE, msg |-> Msg("check", "System admin user created"),
          t |-> [t EXCEPT !.created = @ \cup {"users"},
                          !.users = @ \cup {[username |-> email, hashed_password |-> Hash(password),
                                              role |-> "system_admin"]}]]

\* create_company_record, one transaction
create_company_record(t, name, industry, fault) ==
    IF fault = "error" THEN [ok |-> FALSE, msg |-> Msg("cross", "Failed to create company"), t |-> t]
    ELSE [ok |-> TRUE, msg |-> Msg("check", "Company record created"),
          t |-> [t EXCEPT !.created = @ \cup {"company"},
                          !.company = Append(@, [name |-> name, industry |-> industry])]]

\* str.upper() on the letters used in language codes
Upper(sq) == [i \in 1..Len(sq) |-> CASE sq[i] = "e" -> "E" [] sq[i] = "n" -> "N" [] sq[i] = "f" -> "F"
                                     [] sq[i] = "r" -> "R" [] OTHER -> sq[i]]

\* seed_languages with ON CONFLICT (code) DO UPDATE SET label = EXCLUDED.label
seed_languages_overwrite(t, fault) ==
    IF fault = "error" THEN [msg |-> Msg("cross", "Failed to seed languages"), t |-> t]
    ELSE [msg |-> Msg("tick", "Languages seeded"),
          t |-> [t EXCEPT !.created = @ \cup {"languages"},
                          !.languages = {r \in @ : r.code \notin LANGUAGES}
                                          \cup {[code |-> c, label |-> Upper(c)] : c \in LANGUAGES}]]

\* seed_languages, one transaction: INSERT ... ON CONFLICT (code) DO NOTHING per code
seed_languages(t, fault) ==
    IF fault = "error" THEN [msg |-> Msg("cross", "Failed to seed languages"), t |-> t]
    ELSE [msg |-> Msg("tick", "Languages seeded"),
          t |-> [t EXCEPT !.created = @ \cup {"languages"},
                          !.languages = @ \cup {[code |-> c, label |-> Upper(c)] :
                                                 c \in {x \in LANGUAGES : \A r \in t.languages : r.code # x}}]]

\* the loop of seed_modules with ON CONFLICT (name) DO UPDATE SET enabled = TRUE
RECURSIVE InsertModules_reenable(_, _)
InsertModules_reenable(rows, mods) ==
    IF mods = <<>> THEN rows
    ELSE InsertModules_reenable({r \in rows : r.name # Head(mods)} \cup {[name |-> Head(mods), enabled |-> TRUE]},
                                Tail(mods))

\* the INSERT ... ON CONFLICT (name) DO NOTHING loop of seed_modules
RECURSIVE InsertModules(_, _)
InsertModules(rows, mods) ==
    IF mods = <<>> THEN rows
    ELSE InsertModules(IF \E r \in rows : r.name = Head(mods) THEN rows
                       ELSE rows \cup {[name |-> Head(mods), enabled |-> TRUE]}, Tail(mods))

\* seed_modules, one transaction
seed_modules(t, mods, fault) ==
    IF fault = "error" THEN [msg |-> Msg("cross", "Failed to seed modules"), t |-> t]
    ELSE [msg |-> Msg("tick", "Modules seeded"),
          t |-> [t EXCEPT !.created = @ \cup {"modules"}, !.modules = InsertModules(@, mods)]]

(* ------------------------------ finish-stream -------------------------- *)
DONE_EVENT == [event |-> "done", data |-> DONE]

\* session_data as finish_stream builds it (admin_password is popped separately)
session_data(s) ==
    LET db_type == sm_get(s, "db_type", "standard")
    IN  [db_type |-> db_type,
         db_form |-> IF db_type = "standard" THEN sm_get_form(s, "dbsetup_standard")
                     ELSE sm_get_form(s, "dbsetup_custom"),
         admin_form |-> sm_get_form(s, "admin"),
         company_form |-> sm_get_form(s, "company"),
         system_form |-> sm_get(s, "system_form", EmptyDict),
         admin_password |-> sm_get(s, "__admin_pw", <<>>)]

\* the guard with the provisioning_started test left out
AlreadyStarted_complete_only(s) == sm_get(s, "onboarding_complete", FALSE)

\* the guard of finish_stream
AlreadyStarted(s) == sm_get(s, "provisioning_started", FALSE) \/ sm_get(s, "onboarding_complete", FALSE)

\* the run followed by pc is over and its background task, if it runs at all, has run
RunSlotFree == pc \in {"idle", "raised"} \/ (pc \in {"returned", "closed"} /\ ~cleanup_pending)

\* GET /finish-stream, handling a request whose cookie decoded to the session r.
\* One run is followed at a time: a request that passes the guard is taken up
\* when no earlier run is still streaming.
finish_stream(r) ==
    IF AlreadyStarted(r)
    THEN /\ reply' = <<DONE_EVENT>>
         /\ session' = r
         /\ UNCHANGED <<sm, carried, ran, runvars>>
    ELSE /\ RunSlotFree
         /\ sm' = DictDel(DictSet(r, "provisioning_started", TRUE), "__admin_pw")
         /\ session' = sm'
         /\ carried' = r
         /\ sd' = session_data(r)
         /\ pc' = "created"
         /\ done_flag' = FALSE
         /\ cleanup_pending' = TRUE
         /\ ok' = FALSE
         /\ creds' = EmptyDict
         /\ engine' = EmptyDict
         /\ msgs' = <<>>
         /\ events' = <<>>
         /\ calls' = <<>>
         /\ UNCHANGED <<reply, ran>>

\* the browser requests /finish-stream and waits for the response to start
get_finish_stream ==
    /\ nreq < MaxRequests
    /\ nreq' = nreq + 1
    /\ finish_stream(session)
    /\ UNCHANGED <<resp, nposts, posted, disk, inflight, worldvars, storevars>>

\* the browser sends a /finish-stream request without waiting for an earlier one
send_finish_stream ==
    /\ nreq < MaxRequests
    /\ nreq' = nreq + 1
    /\ inflight' = Append(inflight, session)
    /\ UNCHANGED <<session, resp, nposts, posted, disk, reply, sm, carried, ran, runvars, worldvars, storevars>>

\* a request in flight reaches the server
deliver_finish_stream ==
    \E i \in 1..Len(inflight) :
        /\ finish_stream(inflight[i])
        /\ inflight' = SubSeq(inflight, 1, i - 1) \o SubSeq(inflight, i + 1, Len(inflight))
        /\ UNCHANGED <<resp, nposts, posted, disk, nreq, worldvars, storevars>>

\* cleanup() without the test of done_flag
cleanup_session_unconditional(s, done) ==
    DictDel(DictSet(clear_onboarding_state(s), "onboarding_complete", TRUE), "provisioning_started")

\* cleanup() flipping onboarding_complete instead of setting it
cleanup_session_toggle(s, done) ==
    IF done
    THEN DictDel(DictSet(clear_onboarding_state(s), "onboarding_complete",
                         ~sm_get(s, "onboarding_complete", FALSE)), "provisioning_started")
    ELSE s

\* what cleanup() leaves of the request's session
cleanup_session(s, done) ==
    IF done
    THEN DictDel(DictSet(clear_onboarding_state(s), "onboarding_complete", TRUE), "provisioning_started")
    ELSE s

\* cleanup(), the background task of the run, after the response body ended;
\* the response started long before, so the cookie is not written again
cleanup ==
    /\ cleanup_pending
    /\ pc \in {"returned", "closed"}
    /\ cleanup_pending' = FALSE
    /\ sm' = cleanup_session(sm, done_flag)
    /\ UNCHANGED <<session, resp, nposts, posted, disk, nreq, inflight, carried, ran, reply, pc, sd, ok, creds,
                   engine, msgs, events, done_flag, calls, worldvars, storevars>>

(* ------------------------------ provision_site ------------------------- *)
\* the locals provision_site reads from its session argument
L_db_type == sd.db_type
L_db_form == sd.db_form
L_db_name == Strip(DictGet(sd.db_form, "db_name", <<>>))
L_email == Strip(DictGet(sd.admin_form, "email", <<>>))
L_password == Strip(sd.admin_password)
L_company == Strip(DictGet(sd.company_form, "company_name", <<>>))
L_industry == Strip(DictGet(sd.company_form, "industry", <<>>))
L_modules == DictGet(sd.system_form, "modules", <<>>)

Call(op) == [op |-> op, ev |-> "call"]
Ret(op, outcome) == [op |-> op, ev |-> outcome]
Outcome(b) == IF b THEN "ok" ELSE "fail"

\* yield m: the message reaches event_generator, which frames it
Yield(m, next) ==
    /\ msgs' = Append(msgs, m)
    /\ events' = Append(events, SseEvent(m))
    /\ pc' = next

\* an exception leaves the generator: nothing more is yielded
Raise ==
    /\ pc' = "raised"
    /\ UNCHANGED <<msgs, events>>

frame == <<session, resp, nposts, posted, disk, nreq, reply, inflight, sm, carried, sd, done_flag, cleanup_pending,
           storevars>>

\* line 79
step_start ==
    /\ pc = "created"
    /\ Yield(M_START, "y_start")
    /\ ran' = Append(ran, carried)
    /\ UNCHANGED <<frame, ok, creds, engine, calls, worldvars>>

\* line 82
step_db_begin ==
    /\ pc = "y_start"
    /\ Yield(M_DB_BEGIN, "y_db_begin")
    /\ UNCHANGED <<frame, ran, ok, creds, engine, calls, worldvars>>

\* lines 83-85 and 91, standard mode: create_standard_db runs to its return
step_db_standard ==
    /\ pc = "y_db_begin"
    /\ L_db_type = "standard"
    /\ \E fault \in StdFaults :
         LET r == create_standard_db(L_db_name, fault, databases, roles, credStore)
         IN  /\ ok' = r.ok
             /\ creds' = r.creds
             /\ databases' = r.databases
             /\ roles' = r.roles
             /\ credStore' = r.credStore
             /\ calls' = calls \o <<Call("create_standard_db"), Ret("create_standard_db", Outcome(r.ok))>>
             /\ Yield(r.msg, "y_db_result")
    /\ UNCHANGED <<frame, ran, engine, tables>>

\* lines 87-88, custom mode: create_custom_db up to its await or early exit
step_db_custom ==
    /\ pc = "y_db_begin"
    /\ L_db_type # "standard"
    /\ LET pre == custom_db_prefix(L_db_form, disk)
       IN  CASE pre = "raise" ->
                  /\ calls' = calls \o <<Call("create_custom_db"), Ret("create_custom_db", "raise")>>
                  /\ Raise
                  /\ UNCHANGED <<ok, creds>>
             [] pre = "fail" ->
                  /\ calls' = calls \o <<Call("create_custom_db"), Ret("create_custom_db", "fail")>>
                  /\ ok' = FALSE
                  /\ creds' = EmptyDict
                  /\ Yield(Msg("cross", "SSL enabled but certificate not found on disk."), "y_db_result")
             [] OTHER ->
                  /\ calls' = calls \o <<Call("create_custom_db"), Call("asyncpg.connect")>>
                  /\ pc' = "aw_custom"
                  /\ UNCHANGED <<ok, creds, msgs, events>>
    /\ UNCHANGED <<frame, ran, engine, worldvars>>

\* lines 88-91, custom mode: the awaited connection attempt completes
ret_db_custom ==
    /\ pc = "aw_custom"
    /\ \E fault \in CustomFaults :
         LET r == create_custom_db(L_db_form, fault, credStore, disk)
         IN  /\ ok' = r.ok
             /\ creds' = r.creds
             /\ credStore' = r.credStore
             /\ disk' = r.disk
             /\ calls' = calls \o <<Ret("asyncpg.connect", Outcome(r.connected)),
                                    Ret("create_custom_db", Outcome(r.ok))>>
             /\ Yield(r.msg, "y_db_result")
    /\ UNCHANGED <<session, resp, nposts, posted, nreq, reply, inflight, sm, carried, sd, done_flag, cleanup_pending,
                   storevars, ran, engine, databases, roles, tables>>

\* lines 92-102 with the admin step announced where the abort message belongs
step_after_db_no_abort ==
    /\ pc = "y_db_result"
    /\ IF ~ok
       THEN /\ Yield(M_ADMIN_BEGIN, "y_abort")
            /\ UNCHANGED <<engine, calls>>
       ELSE IF ~engine_url_ok(creds)
       THEN /\ calls' = calls \o <<Call("get_db_admin_engine"), Ret("get_db_admin_engine", "raise")>>
            /\ Raise
            /\ UNCHANGED engine
       ELSE /\ engine' = get_db_admin_engine(creds)
            /\ calls' = calls \o <<Call("get_db_admin_engine"), Ret("get_db_admin_engine", "ok")>>
            /\ Yield(M_ADMIN_BEGIN, "y_admin_begin")
    /\ UNCHANGED <<frame, ran, ok, creds, worldvars>>

\* lines 92-102
step_after_db ==
    /\ pc = "y_db_result"
    /\ IF ~ok
       THEN /\ Yield(M_ABORT_DB, "y_abort")
            /\ UNCHANGED <<engine, calls>>
       ELSE IF ~engine_url_ok(creds)
       THEN /\ calls' = calls \o <<Call("get_db_admin_engine"), Ret("get_db_admin_engine", "raise")>>
            /\ Raise
            /\ UNCHANGED engine
       ELSE /\ engine' = get_db_admin_engine(creds)
            /\ calls' = calls \o <<Call("get_db_admin_engine"), Ret("get_db_admin_engine", "ok")>>
            /\ Yield(M_ADMIN_BEGIN, "y_admin_begin")
    /\ UNCHANGED <<frame, ran, ok, creds, worldvars>>

\* lines 103-108
step_admin ==
    /\ pc = "y_admin_begin"
    /\ IF L_email = <<>> \/ L_password = <<>>
       THEN /\ Yield(M_ABORT_ADMIN_MISSING, "y_abort")
            /\ UNCHANGED calls
       ELSE /\ calls' = Append(calls, Call("create_system_admin_user"))
            /\ pc' = "aw_admin"
            /\ UNCHANGED <<msgs, events>>
    /\ UNCHANGED <<frame, ran, ok, creds, engine, worldvars>>

\* lines 108-110
ret_admin ==
    /\ pc = "aw_admin"
    /\ \E fault \in OpFaults :
         LET r == create_system_admin_user(tables[engine.db], L_email, L_password, fault)
         IN  /\ ok' = r.ok
             /\ tables' = [tables EXCEPT ![engine.db] = r.t]
             /\ calls' = Append(calls, Ret("create_system_admin_user", Outcome(r.ok)))
             /\ Yield(r.msg, "y_admin_result")
    /\ UNCHANGED <<frame, ran, creds, engine, databases, roles, credStore>>

\* lines 111-117 with the failure test left out
step_after_admin_no_abort ==
    /\ pc = "y_admin_result"
    /\ Yield(M_COMPANY_BEGIN, "y_company_begin")
    /\ UNCHANGED <<frame, ran, ok, creds, engine, calls, worldvars>>

\* lines 111-117
step_after_admin ==
    /\ pc = "y_admin_result"
    /\ IF ~ok THEN Yield(M_ABORT_ADMIN, "y_abort") ELSE Yield(M_COMPANY_BEGIN, "y_company_begin")
    /\ UNCHANGED <<frame, ran, ok, creds, engine, calls, worldvars>>

\* lines 118-123
step_company ==
    /\ pc = "y_company_begin"
    /\ IF L_company = <<>>
       THEN /\ Yield(M_ABORT_COMPANY_MISSING, "y_abort")
            /\ UNCHANGED calls
       ELSE /\ calls' = Append(calls, Call("create_company_record"))
            /\ pc' = "aw_company"
            /\ UNCHANGED <<msgs, events>>
    /\ UNCHANGED <<frame, ran, ok, creds, engine, worldvars>>

\* lines 123-125
ret_company ==
    /\ pc = "aw_company"
    /\ \E fault \in OpFaults :
         LET r == create_company_record(tables[engine.db], L_company, L_industry, fault)
         IN  /\ ok' = r.ok
             /\ tables' = [tables EXCEPT ![engine.db] = r.t]
             /\ calls' = Append(calls, Ret("create_company_record", Outcome(r.ok)))
             /\ Yield(r.msg, "y_company_result")
    /\ UNCHANGED <<frame, ran, creds, engine, databases, roles, credStore>>

\* lines 126-132 with the failure test left out
step_after_company_no_abort ==
    /\ pc = "y_company_result"
    /\ Yield(M_LANG_BEGIN, "y_lang_begin")
    /\ UNCHANGED <<frame, ran, ok, creds, engine, calls, worldvars>>

\* lines 126-132 with the database of the run dropped when the company step failed
step_after_company_rollback ==
    /\ pc = "y_company_result"
    /\ IF ~ok
       THEN /\ Yield(M_ABORT_COMPANY, "y_abort")
            /\ databases' = databases \ {engine.db}
            /\ roles' = roles \ {engine.user}
            /\ credStore' = DictDel(credStore, ini_path(creds.db_name))
            /\ tables' = [tables EXCEPT ![engine.db] = EmptyTables]
       ELSE /\ Yield(M_LANG_BEGIN, "y_lang_begin")
            /\ UNCHANGED worldvars
    /\ UNCHANGED <<frame, ran, ok, creds, engine, calls>>

\* lines 126-132
step_after_company ==
    /\ pc = "y_company_result"
    /\ IF ~ok THEN Yield(M_ABORT_COMPANY, "y_abort") ELSE Yield(M_LANG_BEGIN, "y_lang_begin")
    /\ UNCHANGED <<frame, ran, ok, creds, engine, calls, worldvars>>

\* line 133: seed_languages is awaited
step_lang ==
    /\ pc = "y_lang_begin"
    /\ calls' = Append(calls, Call("seed_languages"))
    /\ pc' = "aw_lang"
    /\ UNCHANGED <<frame, ran, ok, creds, engine, msgs, events, worldvars>>

\* the local msg at lines 136 and 146: the message yielded last
L_msg == msgs[Len(msgs)]

\* lines 133-135
ret_lang ==
    /\ pc = "aw_lang"
    /\ \E fault \in OpFaults :
         LET r == seed_languages(tables[engine.db], fault)
         IN  /\ tables' = [tables EXCEPT ![engine.db] = r.t]
             /\ calls' = Append(calls, Ret("seed_languages", Outcome(~StartsWithCross(r.msg))))
             /\ Yield(r.msg, "y_lang_result")
    /\ UNCHANGED <<frame, ran, ok, creds, engine, databases, roles, credStore>>

\* lines 136-142
step_after_lang ==
    /\ pc = "y_lang_result"
    /\ IF StartsWithCross(L_msg) THEN Yield(M_ABORT_LANG, "y_abort") ELSE Yield(M_MOD_BEGIN, "y_mod_begin")
    /\ UNCHANGED <<frame, ran, ok, creds, engine, calls, worldvars>>

\* line 143: seed_modules is awaited
step_mod ==
    /\ pc = "y_mod_begin"
    /\ calls' = Append(calls, Call("seed_modules"))
    /\ pc' = "aw_mod"
    /\ UNCHANGED <<frame, ran, ok, creds, engine, msgs, events, worldvars>>

\* lines 143-145
ret_mod ==
    /\ pc = "aw_mod"
    /\ \E fault \in OpFaults :
         LET r == seed_modules(tables[engine.db], L_modules, fault)
         IN  /\ tables' = [tables EXCEPT ![engine.db] = r.t]
             /\ calls' = Append(calls, Ret("seed_modules", Outcome(~StartsWithCross(r.msg))))
             /\ Yield(r.msg, "y_mod_result")
    /\ UNCHANGED <<frame, ran, ok, creds, engine, databases, roles, credStore>>

\* lines 146-152 with the final success message left out
step_after_mod_no_final ==
    /\ pc = "y_mod_result"
    /\ IF StartsWithCross(L_msg) THEN Yield(M_ABORT_MOD, "y_abort") ELSE Yield(DONE, "y_done")
    /\ UNCHANGED <<frame, ran, ok, creds, engine, calls, worldvars>>

\* lines 146-152 with the failure test inverted
step_after_mod_inverted ==
    /\ pc = "y_mod_result"
    /\ IF ~StartsWithCross(L_msg) THEN Yield(M_ABORT_MOD, "y_abort") ELSE Yield(M_COMPLETE, "y_final")
    /\ UNCHANGED <<frame, ran, ok, creds, engine, calls, worldvars>>

\* lines 146-152
step_after_mod ==
    /\ pc = "y_mod_result"
    /\ IF StartsWithCross(L_msg) THEN Yield(M_ABORT_MOD, "y_abort") ELSE Yield(M_COMPLETE, "y_final")
    /\ UNCHANGED <<frame, ran, ok, creds, engine, calls, worldvars>>

\* the yield "done" after an abort message or after the final success message
step_done ==
    /\ pc \in {"y_abort", "y_final"}
    /\ Yield(DONE, "y_done")
    /\ UNCHANGED <<frame, ran, ok, creds, engine, calls, worldvars>>

\* the generator returns; event_generator, resumed after framing "done", sets the flag
step_end ==
    /\ pc = "y_done"
    /\ pc' = "returned"
    /\ done_flag' = TRUE
    /\ UNCHANGED <<session, resp, nposts, posted, disk, nreq, reply, reqvars, sd, cleanup_pending, ok, creds,
                   engine, msgs, events, calls, worldvars, storevars>>

\* the points where the generator is suspended: at a yield or inside an await
Suspended == {"created", "y_start", "y_db_begin", "aw_custom", "y_db_result", "y_admin_begin", "aw_admin",
              "y_admin_result", "y_company_begin", "aw_company", "y_company_result", "y_lang_begin",
              "aw_lang", "y_lang_result", "y_mod_begin", "aw_mod", "y_mod_result", "y_abort", "y_final",
              "y_done"}

\* the client goes away: the streaming task is cancelled where it is suspended
disconnect ==
    /\ pc \in Suspended
    /\ pc' = "closed"
    /\ UNCHANGED <<session, resp, nposts, posted, disk, nreq, reply, reqvars, sd, cleanup_pending, ok, creds,
                   engine, msgs, events, done_flag, calls, worldvars, storevars>>

provision_site ==
    \/ step_start \/ step_db_begin \/ step_db_standard \/ step_db_custom \/ ret_db_custom
    \/ step_after_db \/ step_admin \/ ret_admin \/ step_after_admin
    \/ step_company \/ ret_company \/ step_after_company
    \/ step_lang \/ ret_lang \/ step_after_lang
    \/ step_mod \/ ret_mod \/ step_after_mod
    \/ step_done \/ step_end

(* ------------------------------ environment ---------------------------- *)
\* a certificate file is removed from the certs directory
remove_cert_file ==
    /\ \E f \in DOMAIN disk : disk' = DictDel(disk, f)
    /\ UNCHANGED <<session, resp, nposts, posted, nreq, reply, reqvars, runvars, worldvars, storevars>>

(* ------------------------------ direct Credential Store calls ---------- *)
MaxStoreOps == 3

StoreProfiles == {<<>>, Blank, <<"a">>, <<".", "/", "a">>, <<"b">>}

StoreCreds == {
    [db_name |-> <<"a">>, user |-> <<"u">>, password |-> <<"w">>, host |-> RemoteHost,
     port |-> POSTGRES_PORT, ssl |-> FALSE],
    [db_name |-> <<"b">>, user |-> <<"u">>, password |-> <<" ", "w">>, host |-> RemoteHost,
     port |-> 6543, ssl |-> TRUE]}

StoreCerts == {"none", "good_pem"}

\* a caller invokes write_db_creds(profile, creds, ssl_cert_bytes)
store_write(profile, c, ssl_cert_bytes, fault) ==
    LET w == write_db_creds(credStore, disk, profile, c, ssl_cert_bytes, nops + 1, fault)
    IN  /\ nops < MaxStoreOps
        /\ nops' = nops + 1
        /\ credStore' = w.store
        /\ disk' = w.disk
        /\ written' = IF w.raised THEN written ELSE written \cup {profile}
        /\ lastOp' = [op |-> "write", profile |-> profile, creds |-> c, cert |-> ssl_cert_bytes,
                      raised |-> w.raised]
        /\ UNCHANGED <<session, resp, nposts, posted, nreq, reply, reqvars, runvars, databases, roles, tables>>

\* a caller invokes read_db_creds(profile)
store_read(profile) ==
    LET r == read_db_creds(credStore, profile)
    IN  /\ nops < MaxStoreOps
        /\ nops' = nops + 1
        /\ lastOp' = [op |-> "read", profile |-> profile, raised |-> r.raised, rec |-> r.rec]
        /\ UNCHANGED <<session, resp, nposts, posted, disk, nreq, reply, reqvars, runvars, worldvars, written>>

(* ------------------------------ direct schema / seed calls ------------- *)
MaxSchemaOps == 3

SchemaEmails == {GoodEmail, TakenEmail}
SchemaPasswords == {GoodPw, ShortPw}
SchemaModules == {<<"CRM", "CRM">>, <<"HR">>, <<"CRM", "HR">>}

\* the record of a direct call: repeat says that the call before it was the same
\* operation on the same database and the server served both
SchemaOp(op, db, fault) ==
    [op |-> op, db |-> db, fault |-> fault,
     repeat |-> (lastOp.op = op /\ lastOp.db = db /\ lastOp.fault = "none" /\ fault = "none")]

SchemaFrame == <<session, resp, nposts, posted, disk, nreq, reply, reqvars, runvars, databases, roles, credStore, written>>

\* a caller awaits create_system_admin_user(engine, email, password), engine bound to db
call_create_system_admin_user(db, email, password, fault) ==
    LET r == create_system_admin_user(tables[db], email, password, fault)
    IN  /\ nops < MaxSchemaOps
        /\ db \in databases
        /\ nops' = nops + 1
        /\ tables' = [tables EXCEPT ![db] = r.t]
        /\ lastOp' = [email |-> email, password |-> password, ok |-> r.ok, msg |-> r.msg]
                        @@ SchemaOp("create_system_admin_user", db, fault)
        /\ UNCHANGED SchemaFrame

\* a caller awaits create_company_record(engine, name, industry)
call_create_company_record(db, name, industry, fault) ==
    LET r == create_company_record(tables[db], name, industry, fault)
    IN  /\ nops < MaxSchemaOps
        /\ db \in databases
        /\ nops' = nops + 1
        /\ tables' = [tables EXCEPT ![db] = r.t]
        /\ lastOp' = [ok |-> r.ok, msg |-> r.msg] @@ SchemaOp("create_company_record", db, fault)
        /\ UNCHANGED SchemaFrame

\* a caller awaits seed_languages(engine)
call_seed_languages(db, fault) ==
    LET r == seed_languages(tables[db], fault)
    IN  /\ nops < MaxSchemaOps
        /\ db \in databases
        /\ nops' = nops + 1
        /\ tables' = [tables EXCEPT ![db] = r.t]
        /\ lastOp' = [msg |-> r.msg] @@ SchemaOp("seed_languages", db, fault)
        /\ UNCHANGED SchemaFrame

\* a caller awaits seed_modules(engine, modules)
call_seed_modules(db, mods, fault) ==
    LET r == seed_modules(tables[db], mods, fault)
    IN  /\ nops < MaxSchemaOps
        /\ db \in databases
        /\ nops' = nops + 1
        /\ tables' = [tables EXCEPT ![db] = r.t]
        /\ lastOp' = [modules |-> mods, msg |-> r.msg] @@ SchemaOp("seed_modules", db, fault)
        /\ UNCHANGED SchemaFrame

(* ------------------------------ specification -------------------------- *)
\* the wizard is unopened or has been walked through once; on the server the database OldName exists and has an
\* administrator registered under TakenEmail
DbUniverse == {NewName, OldName}

OldUsers == {[username |-> TakenEmail, hashed_password |-> Hash(GoodPw), role |-> "system_admin"]}

\* the session after a wizard walked through with valid entries for a new database
ValidAdmin == [full_name |-> <<"n">>, email |-> GoodEmail, password |-> GoodPw, confirm |-> GoodPw]
ValidCompany == [company_name |-> <<"c">>, industry |-> <<"t">>]
ValidSystem == [language |-> <<"e", "n">>, modules |-> <<"CRM", "CRM">>]
WalkedSession ==
    system_setup_result(
        company_setup_result(
            admin_user_setup_result(
                dbsetup_standard_result(EmptyDict, NewName).session, ValidAdmin).session,
            ValidCompany).session,
        ValidSystem).session

\* the session after a wizard walked through for an existing remote database
ValidCustomDb == [db_name |-> OldName, host |-> RemoteHost, user |-> <<"u">>, ssl |-> FALSE, cert |-> "none"]
WalkedCustomSession ==
    system_setup_result(
        company_setup_result(
            admin_user_setup_result(
                dbsetup_custom_result(EmptyDict, EmptyDict, ValidCustomDb, 0).session, ValidAdmin).session,
            ValidCompany).session,
        ValidSystem).session

\* nothing requested, no run started, nothing called yet
InitProgram ==
    /\ resp = "none"
    /\ nposts = 0
    /\ posted = [step |-> "none"]
    /\ disk = EmptyDict
    /\ nreq = 0
    /\ inflight = <<>>
    /\ sm = EmptyDict
    /\ carried = EmptyDict
    /\ ran = <<>>
    /\ reply = <<>>
    /\ pc = "idle"
    /\ sd = EmptyDict
    /\ ok = FALSE
    /\ creds = EmptyDict
    /\ engine = EmptyDict
    /\ msgs = <<>>
    /\ events = <<>>
    /\ done_flag = FALSE
    /\ cleanup_pending = FALSE
    /\ calls = <<>>
    /\ lastOp = [op |-> "none"]
    /\ written = {}
    /\ nops = 0
    /\ roles = {POSTGRES_SUPERUSER}
    /\ credStore = EmptyDict

\* ... and a server that holds the database OldName with its administrator
InitRest ==
    /\ InitProgram
    /\ databases = {OldName}
    /\ tables = [d \in DbUniverse |-> IF d = OldName
                                       THEN [EmptyTables EXCEPT !.created = {"users"}, !.users = OldUsers]
                                       ELSE EmptyTables]

Init == session \in {EmptyDict, WalkedSession} /\ InitRest

\* a browser that waits for each response to start before its next request and
\* reads every stream to its end
Next == WizardPost \/ get_finish_stream \/ provision_site \/ cleanup \/ remove_cert_file

Spec == Init /\ [][Next]_vars

\* a browser that, the wizard walked through, has several finish-stream
\* requests in flight and may go away in the middle of a stream
InitRace == session \in {WalkedSession, WalkedCustomSession} /\ InitRest

NextRace == send_finish_stream \/ deliver_finish_stream \/ provision_site \/ disconnect \/ cleanup

SpecRace == InitRace /\ [][NextRace]_vars

\* callers of the Credential Store alone
InitStore == session = EmptyDict /\ InitRest

NextStore ==
    \/ \E profile \in StoreProfiles, c \in StoreCreds, b \in StoreCerts, fault \in StoreFaults :
         store_write(profile, c, b, fault)
    \/ \E profile \in StoreProfiles : store_read(profile)

SpecStore == InitStore /\ [][NextStore]_vars

\* callers of the schema / seed operations alone: NewName has just been created, OldName is the
\* database of an earlier installation whose operator relabelled a language and disabled a module
SeededTables ==
    [EmptyTables EXCEPT !.created = {"users", "languages", "modules"},
                        !.users = OldUsers,
                        !.languages = {[code |-> <<"e", "n">>, label |-> <<"E", "n", "g">>]},
                        !.modules = {[name |-> "CRM", enabled |-> FALSE]}]

InitSchema ==
    /\ session = EmptyDict
    /\ InitProgram
    /\ databases = DbUniverse
    /\ tables = [d \in DbUniverse |-> IF d = OldName THEN SeededTables ELSE EmptyTables]

NextSchema ==
    \/ \E db \in DbUniverse, email \in SchemaEmails, password \in SchemaPasswords, fault \in OpFaults :
         call_create_system_admin_user(db, email, password, fault)
    \/ \E db \in DbUniverse, fault \in OpFaults :
         call_create_company_record(db, ValidCompany.company_name, ValidCompany.industry, fault)
    \/ \E db \in DbUniverse, fault \in OpFaults : call_seed_languages(db, fault)
    \/ \E db \in DbUniverse, mods \in SchemaModules, fault \in OpFaults : call_seed_modules(db, mods, fault)

SpecSchema == InitSchema /\ [][NextSchema]_vars

(* ------------------------------ properties ----------------------------- *)
AbortMsgs == {M_ABORT_DB, M_ABORT_ADMIN_MISSING, M_ABORT_ADMIN, M_ABORT_COMPANY_MISSING,
              M_ABORT_COMPANY, M_ABORT_LANG, M_ABORT_MOD}
AdminStepMsgs == {M_ADMIN_BEGIN, M_ABORT_ADMIN_MISSING, M_ABORT_ADMIN, Msg("check", "System admin user created"),
                  Msg("cross", "Email already exists"), Msg("cross", "Failed to create admin")}
CompanyStepMsgs == {M_COMPANY_BEGIN, M_ABORT_COMPANY_MISSING, M_ABORT_COMPANY,
                    Msg("check", "Company record created"), Msg("cross", "Failed to create company")}
SeedStepMsgs == {M_LANG_BEGIN, M_ABORT_LANG, Msg("tick", "Languages seeded"), Msg("cross", "Failed to seed languages"),
                 M_MOD_BEGIN, M_ABORT_MOD, Msg("tick", "Modules seeded"), Msg("cross", "Failed to seed modules")}
DbOkMsgs == {Msg("check", "Created DB with scoped admin"), Msg("check", "Connected to custom DB and saved credentials.")}

Yielded(m) == \E i \in 1..Len(msgs) : msgs[i] = m
YieldedAny(S) == \E i \in 1..Len(msgs) : msgs[i] \in S
Invoked(op) == \E i \in 1..Len(calls) : calls[i] = Call(op)
Returned(op, outcome) == \E i \in 1..Len(calls) : calls[i] = Ret(op, outcome)

\* the run's stream has ended: the generator returned or an exception left it
RunOver == pc \in {"returned", "raised"}
RunStarted == pc # "idle"

SchemaOps == {"create_system_admin_user", "create_company_record", "seed_languages", "seed_modules"}
DbOps == {"create_standard_db", "create_custom_db"}

\* the five steps, in pipeline order
StepNo(op) == CASE op \in DbOps -> 1
                [] op = "create_system_admin_user" -> 2
                [] op = "create_company_record" -> 3
                [] op = "seed_languages" -> 4
                [] op = "seed_modules" -> 5
                [] OTHER -> 0

IsStepEvent(e) == StepNo(e.op) > 0
StepEvents == SelectSeq(calls, IsStepEvent)

AllFiveOk ==
    /\ \E op \in DbOps : Returned(op, "ok")
    /\ \A op \in SchemaOps : Returned(op, "ok")

InitTables == [d \in DbUniverse |-> IF d = OldName
                                    THEN [EmptyTables EXCEPT !.created = {"users"}, !.users = OldUsers]
                                    ELSE EmptyTables]

\* C1: every run that has ended yielded "done" exactly once, as its last message.
C1_DoneOnceAndLast ==
    RunOver => /\ Len(msgs) > 0
               /\ msgs[Len(msgs)] = DONE
               /\ \A i \in 1..(Len(msgs) - 1) : msgs[i] # DONE

\* C2: no exception leaves the pipeline; a call that raised or failed ends the
\* stream with an abort message followed by "done".
C2_NoErrorEscapes ==
    /\ pc # "raised"
    /\ (pc = "returned" /\ \E i \in 1..Len(calls) : calls[i].ev \in {"fail", "raise"})
         => /\ Len(msgs) >= 2
            /\ msgs[Len(msgs) - 1] \in AbortMsgs
            /\ msgs[Len(msgs)] = DONE

\* a step of the run has failed: a call returned failure or an abort was yielded
StepFailed == YieldedAny(AbortMsgs) \/ \E i \in 1..Len(calls) : calls[i].ev = "fail"

\* C3: once a step has failed, no further provisioner or schema operation is
\* invoked: the call history and the databases, roles, credentials and tables stay as they are.
C3_NothingAfterFailure ==
    [][StepFailed => calls' = calls /\ UNCHANGED worldvars]_vars

C3_Witness == StepFailed /\ pc = "returned" /\ Returned("create_company_record", "fail")

\* C4: the steps are invoked in the fixed order, each at most once, and a step
\* is invoked only right after the previous step returned success.
C4_FixedOrder ==
    \A i \in 1..Len(StepEvents) :
        LET e == StepEvents[i]
        IN  IF e.ev = "call"
            THEN \/ i = 1 /\ StepNo(e.op) = 1
                 \/ i > 1 /\ StepEvents[i - 1].ev = "ok" /\ StepNo(e.op) = StepNo(StepEvents[i - 1].op) + 1
            ELSE i > 1 /\ StepEvents[i - 1] = Call(e.op)

C4_Witness == pc = "returned" /\ Returned("seed_modules", "ok") /\ Len(StepEvents) = 10

\* C5: a run in which all five steps succeeded yielded exactly the 13 messages
\* start, db-begin, db result, admin-begin, admin result, company-begin,
\* company result, language-begin, language result, module-begin, module
\* result, final success, "done", and no abort message.
C5_SuccessTranscript ==
    (RunOver /\ AllFiveOk) =>
        /\ Len(msgs) = 13
        /\ msgs[3] \in DbOkMsgs
        /\ [msgs EXCEPT ![3] = DONE] =
             <<M_START, M_DB_BEGIN, DONE, M_ADMIN_BEGIN, Msg("check", "System admin user created"),
               M_COMPANY_BEGIN, Msg("check", "Company record created"), M_LANG_BEGIN,
               Msg("tick", "Languages seeded"), M_MOD_BEGIN, Msg("tick", "Modules seeded"), M_COMPLETE, DONE>>
        /\ ~YieldedAny(AbortMsgs)

C5_Witness == RunOver /\ AllFiveOk /\ sd.db_type = "custom"

\* the run is in standard mode with an empty database name
StdEmptyName == RunStarted /\ sd.db_type = "standard" /\ L_db_name = <<>>

\* C6: a standard-mode run with an empty database name yields the abort message
\* "DB provisioning failed", ends with "done", and yields no admin, company,
\* language or module message.
C6_EmptyDbNameAborts ==
    StdEmptyName =>
        /\ ~YieldedAny(AdminStepMsgs \cup CompanyStepMsgs \cup SeedStepMsgs)
        /\ pc # "raised"
        /\ pc = "returned" => /\ Yielded(M_ABORT_DB)
                              /\ msgs[Len(msgs)] = DONE

C6_Witness == StdEmptyName /\ pc = "returned" /\ "dbsetup_standard_errors" \in DOMAIN session

\* database setup succeeded and the admin email or password is empty after trimming
DbOkAdminMissing ==
    /\ \E op \in DbOps : Returned(op, "ok")
    /\ L_email = <<>> \/ L_password = <<>>

\* C7: when database setup succeeded and the admin email or password is empty,
\* the run ends with admin-begin, the abort message, "done", and none of
\* create_system_admin_user, create_company_record, seed_languages, seed_modules is invoked.
C7_AdminMissingAborts ==
    DbOkAdminMissing =>
        /\ \A op \in SchemaOps : ~Invoked(op)
        /\ RunOver => /\ Len(msgs) >= 3
                      /\ SubSeq(msgs, Len(msgs) - 2, Len(msgs)) = <<M_ADMIN_BEGIN, M_ABORT_ADMIN_MISSING, DONE>>

\* the run is in create-new mode for the database name that exists on the server
StdExistingName == RunStarted /\ sd.db_type = "standard" /\ L_db_name = OldName

ExistingNameTranscript == <<M_START, M_DB_BEGIN, Msg("cross", "DB setup failed"), M_ABORT_DB, DONE>>

\* C8: a create-new run for an existing database name yields exactly start,
\* db-begin, a db-failure message, an abort message, "done"; no table is
\* touched and no credentials record is written.
C8_ExistingDbName ==
    StdExistingName =>
        /\ Len(msgs) <= 5
        /\ msgs = SubSeq(ExistingNameTranscript, 1, Len(msgs))
        /\ RunOver => msgs = ExistingNameTranscript
        /\ tables = InitTables
        /\ credStore = EmptyDict
        /\ \A op \in SchemaOps : ~Invoked(op)

C8_Witness == StdExistingName /\ pc = "returned"

\* C9: when "done" is yielded, the message before it is the final success
\* message or an abort message; no run yields both; and a run that has ended
\* yielded the final success message exactly if all five steps succeeded.
C9_SuccessXorAbort ==
    /\ \A i \in 1..Len(msgs) : msgs[i] = DONE => i > 1 /\ msgs[i - 1] \in AbortMsgs \cup {M_COMPLETE}
    /\ ~(Yielded(M_COMPLETE) /\ YieldedAny(AbortMsgs))
    /\ Yielded(M_COMPLETE) => AllFiveOk
    /\ (RunOver /\ AllFiveOk) => Yielded(M_COMPLETE)

C9_Witness == pc = "returned" /\ Yielded(M_ABORT_MOD)

\* the session cookie carries provisioning_started or onboarding_complete
FlagSet == \/ "provisioning_started" \in DOMAIN session /\ session["provisioning_started"]
           \/ "onboarding_complete" \in DOMAIN session /\ session["onboarding_complete"]

\* C10: a finish-stream request that finds provisioning_started or
\* onboarding_complete set answers with the single end-of-stream event, starts
\* no pipeline step and leaves the session unchanged.
C10_RepeatShortCircuits ==
    [][(nreq' # nreq /\ FlagSet) =>
          /\ reply' = <<DONE_EVENT>>
          /\ session' = session
          /\ UNCHANGED <<sm, ran, runvars, worldvars>>]_vars

C10_Witness == reply = <<DONE_EVENT>> /\ "provisioning_started" \in DOMAIN session

\* C11: of the finish-stream requests that carried the same session state, at
\* most one executed pipeline steps.
C11_AtMostOneRun == \A i, j \in 1..Len(ran) : i # j => ran[i] # ran[j]

\* C12: cleanup changes the session it acts on only when the stream has produced
\* "done"; when the stream ended before "done", cleanup leaves the session,
\* and the cookie, as they are.
C12_CleanupOnlyAfterDone ==
    [][(cleanup_pending /\ ~cleanup_pending') =>
          /\ sm' # sm => Yielded(DONE)
          /\ ~Yielded(DONE) => (sm' = sm /\ session' = session)]_vars

C12_Witness == pc = "closed" /\ ~cleanup_pending /\ ~Yielded(DONE) /\ Len(msgs) > 0

\* the keys clear_onboarding_state removes
WizardKeys == {"db_type", "__admin_pw", "dbsetup_standard_form", "dbsetup_standard_errors",
               "dbsetup_custom_form", "dbsetup_custom_errors", "admin_form", "admin_errors",
               "company_form", "company_errors", "system_form", "system_errors"}

\* cleanup has run after the end-of-stream marker was observed
CleanedAfterDone == pc = "returned" /\ ~cleanup_pending

\* C13: after cleanup ran following "done", running it again leaves the session
\* as it is: no onboarding key, onboarding_complete true, no provisioning_started.
C13_CleanupIdempotent ==
    CleanedAfterDone =>
        /\ cleanup_session(sm, done_flag) = sm
        /\ DOMAIN sm \cap WizardKeys = {}
        /\ "onboarding_complete" \in DOMAIN sm /\ sm["onboarding_complete"] = TRUE
        /\ "provisioning_started" \notin DOMAIN sm

C13_Witness == CleanedAfterDone /\ "admin_form" \in DOMAIN carried /\ "admin_form" \notin DOMAIN sm

\* C14: a finish-stream request that follows an aborted run starts the pipeline
\* anew: a fresh generator, no message yet, no call yet, no short-circuit reply.
C14_RestartAfterAbort ==
    [][(nreq' # nreq /\ pc = "returned" /\ YieldedAny(AbortMsgs)) =>
          /\ pc' = "created"
          /\ msgs' = <<>>
          /\ calls' = <<>>
          /\ reply' = reply]_vars

\* C15: no credentials record returned by the provisioner or held by the
\* Credential Store names the superuser.
C15_NeverSuperuser ==
    /\ "user" \in DOMAIN creds => creds["user"] # POSTGRES_SUPERUSER
    /\ \A f \in DOMAIN credStore : credStore[f].user # POSTGRES_SUPERUSER

\* the step in which create_standard_db is called and returns
StdDbCall == pc = "y_db_begin" /\ pc' = "y_db_result" /\ sd.db_type = "standard"

\* C16: create_standard_db returning failure returns empty credentials and a
\* failure message and writes nothing to the Credential Store; returning
\* success it has written the record of the returned credentials under the
\* database name.
C16_StandardDbOutcome ==
    [][StdDbCall =>
          /\ ~ok' => /\ creds' = EmptyDict
                     /\ StartsWithCross(msgs'[Len(msgs')])
                     /\ credStore' = credStore
          /\ ok' => /\ creds'.db_name = L_db_name
                    /\ L_db_name \in DOMAIN credStore'
                    /\ credStore'[L_db_name].db_name = L_db_name
                    /\ credStore'[L_db_name].user = creds'.user
                    /\ credStore'[L_db_name].password = creds'.password]_vars

C16_Witness ==
    /\ Returned("create_standard_db", "fail")
    /\ NewName \in databases
    /\ (NewName \o ADMIN_SUFFIX) \in roles
    /\ credStore = EmptyDict

\* the step in which create_custom_db is entered with TLS requested and the
\* certificate path absent from the form or not on disk
TlsCertMissingCall ==
    /\ pc = "y_db_begin"
    /\ pc' \notin {"y_db_begin", "closed"}
    /\ sd.db_type # "standard"
    /\ DictGet(sd.db_form, "ssl", FALSE)
    /\ "ssl_cert_path" \notin DOMAIN sd.db_form \/ sd.db_form["ssl_cert_path"] \notin DOMAIN disk

\* C17: create_custom_db with TLS requested and no certificate on disk returns
\* failure, empty credentials and a failure message, attempts no connection
\* and leaves the Credential Store as it is.
C17_TlsCertMissing ==
    [][TlsCertMissingCall =>
          /\ pc' = "y_db_result"
          /\ ~ok'
          /\ creds' = EmptyDict
          /\ StartsWithCross(msgs'[Len(msgs')])
          /\ \A i \in 1..Len(calls') : calls'[i].op # "asyncpg.connect"
          /\ credStore' = credStore]_vars

C17_Witness ==
    /\ Returned("create_custom_db", "fail")
    /\ ~Invoked("asyncpg.connect")
    /\ "ssl_cert_path" \in DOMAIN sd.db_form

\* the step in which the connection attempt of create_custom_db completes
CustomDbReturn == pc = "aw_custom" /\ pc' = "y_db_result"

\* the record write_db_creds stores for the supplied form
FormRecord(form) ==
    [db_name |-> form["db_name"], user |-> form["user"], password |-> form["password"],
     host |-> form["host"], port |-> ToString(form["port"]), ssl |-> StrOfBool(form["ssl"])]

\* create_custom_db returned the supplied values and wrote them under db_name
SuppliedReturnedAndWritten ==
    /\ ok'
    /\ creds' = [k \in {"db_name", "user", "password", "host", "port", "ssl"} |-> sd.db_form[k]]
    /\ sd.db_form["db_name"] \in DOMAIN credStore'
    /\ credStore'[sd.db_form["db_name"]] = FormRecord(sd.db_form)

C19_BlankProfileRejected ==
    [][(nops' # nops /\ lastOp'.op = "write" /\ Strip(lastOp'.profile) = <<>>) =>
          /\ lastOp'.raised
          /\ credStore' = credStore
          /\ disk' = disk]_vars

C19_Witness ==
    /\ lastOp.op = "write"
    /\ lastOp.profile = Blank
    /\ lastOp.cert = "good_pem"
    /\ lastOp.raised
    /\ credStore # EmptyDict

\* C20: read_db_creds of a profile that write_db_creds was never called with
\* raises and returns no record.
C20_UnknownProfileFails ==
    (lastOp.op = "read" /\ lastOp.profile \notin written) =>
        (lastOp.raised /\ lastOp.rec = EmptyDict)

\* the fields of a credentials record
CredFields == {"db_name", "user", "password", "host", "port", "ssl"}

\* C21: read_db_creds(profile) right after a write_db_creds(profile, creds) that
\* did not raise returns the six fields of creds as they were written; and a
\* write without certificate leaves under the profile exactly the six fields.
C21_RoundTrip ==
    [][/\ (nops' # nops /\ lastOp.op = "write" /\ ~lastOp.raised
             /\ lastOp'.op = "read" /\ lastOp'.profile = lastOp.profile) =>
            /\ ~lastOp'.raised
            /\ \A k \in CredFields : k \in DOMAIN lastOp'.rec /\ lastOp'.rec[k] = lastOp.creds[k]
       /\ (nops' # nops /\ lastOp'.op = "write" /\ ~lastOp'.raised /\ lastOp'.cert = "none") =>
            DOMAIN credStore'[ini_path(lastOp'.profile)] = CredFields]_vars

\* the rows of a table under one key
RowsOf(rows, col, key) == {r \in rows : r[col] = key}

\* C22: a seed_languages call the server serves leaves exactly one row per known
\* language code, keeps every row that was there as it was (so its label), gives each
\* row it inserts the uppercased code as label, and changes nothing when it repeats
\* a seed_languages call on the same database.
C22_SeedLanguagesIdempotent ==
    [][(nops' # nops /\ lastOp'.op = "seed_languages" /\ lastOp'.fault = "none") =>
         LET before == tables[lastOp'.db].languages
             after == tables'[lastOp'.db].languages
         IN  /\ \A c \in LANGUAGES : Cardinality(RowsOf(after, "code", c)) = 1
             /\ before \subseteq after
             /\ \A r \in after \ before : r.code \in LANGUAGES /\ r.label = Upper(r.code)
             /\ lastOp'.repeat => tables' = tables]_vars

\* seed_languages has been called twice in a row on the database whose "en" row was relabelled
C22_Witness ==
    /\ lastOp.op = "seed_languages" /\ lastOp.repeat /\ lastOp.db = OldName
    /\ [code |-> <<"e", "n">>, label |-> <<"E", "n", "g">>] \in tables[OldName].languages
    /\ [code |-> <<"f", "r">>, label |-> <<"F", "R">>] \in tables[OldName].languages

\* the names of a module list
NamesOf(mods) == {mods[i] : i \in 1..Len(mods)}

\* C23: a seed_modules call the server serves reports success, keeps every row that
\* was there as it was (so its enabled flag), inserts rows only for requested names,
\* enabled, and leaves exactly one row for every requested name, also for a name
\* already in the table or repeated in the list.
C23_SeedModulesNoDuplicate ==
    [][(nops' # nops /\ lastOp'.op = "seed_modules" /\ lastOp'.fault = "none") =>
         LET before == tables[lastOp'.db].modules
             after == tables'[lastOp'.db].modules
         IN  /\ lastOp'.msg = Msg("tick", "Modules seeded")
             /\ before \subseteq after
             /\ \A r \in after \ before : r.name \in NamesOf(lastOp'.modules) /\ r.enabled
             /\ \A n \in NamesOf(lastOp'.modules) : Cardinality(RowsOf(after, "name", n)) = 1]_vars

\* seed_modules was called with a list that names the disabled module CRM and a new one
C23_Witness ==
    /\ lastOp.op = "seed_modules" /\ lastOp.fault = "none" /\ lastOp.db = OldName
    /\ lastOp.modules = <<"CRM", "HR">>
    /\ tables[OldName].modules = {[name |-> "CRM", enabled |-> FALSE], [name |-> "HR", enabled |-> TRUE]}

\* C24: a create_system_admin_user call the server serves fails with the "already
\* exists" message and leaves the tables as they were when the email is in the users
\* table; otherwise it succeeds and adds exactly one row, with that email, the role
\* system_admin and the hash of the password.
C24_AdminUserUnique ==
    [][(nops' # nops /\ lastOp'.op = "create_system_admin_user" /\ lastOp'.fault = "none") =>
         LET before == tables[lastOp'.db].users
             after == tables'[lastOp'.db].users
         IN  IF RowsOf(before, "username", lastOp'.email) # {}
             THEN /\ ~lastOp'.ok
                  /\ lastOp'.msg = Msg("cross", "Email already exists")
                  /\ tables' = tables
             ELSE /\ lastOp'.ok
                  /\ before \subseteq after
                  /\ after \ before = {[username |-> lastOp'.email, hashed_password |-> Hash(lastOp'.password),
                                         role |-> "system_admin"]}
                  /\ Cardinality(RowsOf(after, "username", lastOp'.email)) = 1]_vars

\* the administrator's email of the earlier installation was tried again with another password
C24_Witness ==
    /\ lastOp.op = "create_system_admin_user" /\ lastOp.fault = "none" /\ lastOp.db = OldName
    /\ lastOp.email = TakenEmail /\ lastOp.password = ShortPw
    /\ ~lastOp.ok
    /\ tables[OldName].users = OldUsers

\* a wizard submission has just been handled
Posted(step) == nposts' # nposts /\ posted'.step = step

\* the text has a character other than letters, digits and underscore
HasNonWord(v) == \E i \in 1..Len(v) : v[i] \notin WordChars

\* the submission was answered with the page of its own step and the session holds
\* its form and a non-empty errors record
SavedAndRendered(key, form, page) ==
    /\ resp' = page
    /\ key \o "_form" \in DOMAIN session' /\ session'[key \o "_form"] = form
    /\ key \o "_errors" \in DOMAIN session' /\ DOMAIN session'[key \o "_errors"] # {}

\* the admin fields that make a submission invalid
AdminInvalid(in) ==
    \/ Strip(in.full_name) = <<>>
    \/ ~(Contains(in.email, "@") /\ Contains(in.email, "."))
    \/ Len(in.password) < MIN_PASSWORD_LEN
    \/ in.password # in.confirm

C26_PreconditionsShortCircuit ==
    RunStarted =>
        /\ (sd.db_type = "standard" /\ L_db_name = <<>>) => ~Invoked("create_standard_db")
        /\ (L_email = <<>> \/ L_password = <<>>) => ~Invoked("create_system_admin_user")
        /\ L_company = <<>> => ~Invoked("create_company_record")

\* the run ended with "done" after an abort at the admin, the company or a seed
\* step, database setup having succeeded
AbortedAfterDb ==
    /\ pc = "returned"
    /\ \E op \in DbOps : Returned(op, "ok")
    /\ YieldedAny(AbortMsgs \ {M_ABORT_DB})
    /\ msgs[Len(msgs)] = DONE

\* C27: after a run that aborted past a successful database setup has yielded
\* "done", the credentials record is still stored under the database name, in
\* standard mode the database and its scoped role still exist, and the rows of every
\* schema or seed step that succeeded are still in the database's tables.
C27_NothingRolledBack ==
    AbortedAfterDb =>
        /\ ini_path(creds.db_name) \in DOMAIN credStore
        /\ credStore[ini_path(creds.db_name)].user = creds.user
        /\ sd.db_type = "standard" =>
              /\ L_db_name \in databases
              /\ L_db_name \o ADMIN_SUFFIX \in roles
        /\ Returned("create_system_admin_user", "ok") =>
              \E r \in tables[engine.db].users : r.username = L_email /\ r.role = "system_admin"
        /\ Returned("create_company_record", "ok") =>
              \E i \in 1..Len(tables[engine.db].company) :
                  tables[engine.db].company[i] = [name |-> L_company, industry |-> L_industry]
        /\ Returned("seed_languages", "ok") =>
              \A c \in LANGUAGES : \E r \in tables[engine.db].languages : r.code = c

\* a standard-mode run created its database and its administrator and aborted at
\* the company step
C27_Witness ==
    /\ AbortedAfterDb /\ sd.db_type = "standard"
    /\ Returned("create_system_admin_user", "ok")
    /\ Returned("create_company_record", "fail")
    /\ Yielded(M_ABORT_COMPANY)

\* C28: in every state after a run has started the session does not contain
\* __admin_pw, whatever wizard requests followed.
C28_NoPasswordAfterStart == RunStarted => "__admin_pw" \notin DOMAIN session

\* the consumer went away before "done" was produced
Interrupted == pc = "closed" /\ ~done_flag

\* the session keys that hold the collected forms
FormKeys == {"dbsetup_standard_form", "dbsetup_custom_form", "admin_form", "company_form", "system_form"}

\* C29: once the consumer has gone away before "done", every further step leaves
\* the session with provisioning_started set, without onboarding_complete and with
\* the forms the run was started with; a finish-stream request handled from then on
\* is answered with the single end-of-stream event, and no run is started and no
\* pipeline step executed.
C29_InterruptedStaysStarted ==
    [][Interrupted =>
         /\ pc' = "closed" /\ msgs' = msgs /\ calls' = calls
         /\ "provisioning_started" \in DOMAIN session' /\ session'["provisioning_started"]
         /\ "onboarding_complete" \notin DOMAIN session'
         /\ \A k \in FormKeys \cap DOMAIN carried : k \in DOMAIN session' /\ session'[k] = carried[k]
         /\ reply' # reply => reply' = <<DONE_EVENT>>]_vars

\* C30: when finish-stream starts a run, the database form in session_data is the
\* form the session holds for the mode db_type names and the session holds no
\* errors for that form; and a database submission answered with its own page again
\* leaves the mode and the form a run would be handed as they were.
C30_ValidatedDbForm ==
    [][/\ (nreq' # nreq /\ pc' = "created") =>
            LET mode == DictGet(carried', "db_type", "standard")
                key == IF mode = "standard" THEN "dbsetup_standard" ELSE "dbsetup_custom"
            IN  /\ sd'.db_type = mode
                /\ sd'.db_form = DictGet(carried', key \o "_form", EmptyDict)
                /\ DOMAIN DictGet(carried', key \o "_errors", EmptyDict) = {}
       /\ ((Posted("db_standard") \/ Posted("db_custom")) /\ resp' \in {"render db_standard", "render db_custom"}) =>
            /\ session_data(session').db_type = session_data(session).db_type
            /\ session_data(session').db_form = session_data(session).db_form]_vars

====
